---- MODULE Spec2Model ----
(***************************************************************************)
(* Model of atom_evaluation/scripts/range_sensor_to_camera_evaluation.py:  *)
(* the script grafts the calibrated transforms and intrinsics of a         *)
(* training dataset into a test dataset, drops the collections without a   *)
(* detection, reprojects the range points of every remaining collection    *)
(* into the image, matches them against the annotated ground truth and     *)
(* prints a table of per-collection errors with an "Averages" bottom row.  *)
(*                                                                         *)
(* Numbers.  Pixel coordinates are integers.  A Python float that is not   *)
(* an integer (a distance, an average) is a fixed-point number with        *)
(* FracDigits decimals, truncated; a table cell ('%.4f') is a fixed-point  *)
(* number with FormatDigits decimals.                                      *)
(***************************************************************************)
EXTENDS Integers, Sequences, FiniteSets, TLC

\* ------------------------------------------------------------- bounds
\* Largest number of collections in the test dataset.
MaxCollections == 2
\* Decimals kept by the fixed-point model of a float.
FracDigits == 6

\* Decimals of a table cell: '%.4f'.
FormatDigits == 4

\* ------------------------------------------------------------ numbers
Abs(a) == IF a < 0 THEN -a ELSE a

Scale == 10 ^ FracDigits

\* Units of a table cell in units of a float.
CellUnit == 10 ^ (FracDigits - FormatDigits)

RECURSIVE SumSeq(_)
SumSeq(s) == IF s = <<>> THEN 0 ELSE Head(s) + SumSeq(Tail(s))

\* floor(sqrt(n)) of a small natural number.
ISqrt(n) == CHOOSE r \in 0..n : r * r <= n /\ n < (r + 1) * (r + 1)

\* One step of the long-hand square root: root r, remainder rem, the next
\* pair of decimals `pair' brought down.
SqrtStep(st, pair) ==
  LET c == st.rem * 100 + pair
      d == CHOOSE x \in 0..9 :
             /\ (20 * st.r + x) * x <= c
             /\ x < 9 => (20 * st.r + x + 1) * (x + 1) > c
  IN  [r |-> 10 * st.r + d, rem |-> c - (20 * st.r + d) * d]

\* sqrt(a / n) with FracDigits decimals (truncated), a >= 0, n > 0: the
\* decimals of a / n are brought down two at a time.
RECURSIVE SqrtDigits(_, _, _, _)
SqrtDigits(st, frac, n, k) ==
  IF k = 0 THEN st.r
  ELSE LET f2 == frac * 100
       IN  SqrtDigits(SqrtStep(st, f2 \div n), f2 % n, n, k - 1)

SqrtRat(a, n) ==
  LET i == a \div n
      r0 == ISqrt(i)
  IN  SqrtDigits([r |-> r0, rem |-> i - r0 * r0], a % n, n, FracDigits)

\* math.sqrt of a natural number, as a float.
Sqrt(d2) == SqrtRat(d2, 1)

\* np.average of a non-empty list of floats.
Average(s) == SumSeq(s) \div Len(s)

\* '%.4f' % v, for v >= 0: rounded to FormatDigits decimals.
Format(v) == (v + CellUnit \div 2) \div CellUnit

\* float(cell) of a cell written by Format.
ParseFloat(cell) == cell * CellUnit

\* ------------------------------------------------------- input data
\* The command line: -rs and -cs.
range_sensor == "lidar"
camera_sensor == "camera"

\* The sensors of both datasets, in dictionary order.
SensorOrder == <<"lidar", "camera", "other">>
SensorKeys == {SensorOrder[i] : i \in 1..Len(SensorOrder)}

sensors ==
  [lidar  |-> [calibration_parent |-> "base_link", calibration_child |-> "lidar_link",
               msg_type |-> "PointCloud2"],
   camera |-> [calibration_parent |-> "base_link", calibration_child |-> "camera_link",
               msg_type |-> "Image"],
   other  |-> [calibration_parent |-> "base_link", calibration_child |-> "other_link",
               msg_type |-> "Image"]]

\* calibration_config.sensors.<name>.link
SensorLink == [s \in SensorKeys |-> sensors[s].calibration_child]

\* generateKey(parent, child): the key "parent-child" of a transform.
generateKey(parent, child) == <<parent, child>>

TransformNameOf(s) == generateKey(sensors[s].calibration_parent, sensors[s].calibration_child)
TransformNames == {TransformNameOf(s) : s \in SensorKeys}

\* A rigid transform, cut down to a translation along the optical x axis
\* (trans) and either no rotation or the half turn about that axis (quat).
Tf(t, q) == [trans |-> t, quat |-> q]
TfI == Tf(0, "id")
TfF == Tf(0, "flipx")
TfS == Tf(1, "id")

\* A collection key is the string of its decimal digits.
KeyPool == {<<2>>, <<9>>, <<1, 0>>}

\* int(key)
RECURSIVE KeyInt(_)
KeyInt(k) == IF k = <<>> THEN 0 ELSE 10 * KeyInt(SubSeq(k, 1, Len(k) - 1)) + k[Len(k)]

TrainTransforms(lidar, camera, other) ==
  [n \in TransformNames |->
     IF n = TransformNameOf("lidar") THEN lidar
     ELSE IF n = TransformNameOf("camera") THEN camera ELSE other]

\* Training datasets: the collections in file order.  The first collection
\* of the file is not the one with the smallest key.
TrainPool ==
  { << [key |-> <<7>>, transforms |-> TrainTransforms(TfI, TfI, TfS)],
       [key |-> <<3>>, transforms |-> TrainTransforms(TfF, TfS, TfI)] >>,
    << [key |-> <<7>>, transforms |-> TrainTransforms(TfF, TfI, TfI)],
       [key |-> <<3>>, transforms |-> TrainTransforms(TfI, TfI, TfI)] >>,
    << [key |-> <<3>>, transforms |-> TrainTransforms(TfS, TfI, TfF)] >> }

\* camera_info of the training dataset (calibrated) and of the test dataset
\* as loaded: K row-major (fx 0 cx 0 fy cy 0 0 1), D zero.
CameraInfo(f) == [K |-> <<f, 0, 0, 0, f, 0, 0, 0, 1>>, D |-> <<0, 0, 0, 0, 0>>]
TrainCameraInfo == CameraInfo(1)
TestCameraInfo == CameraInfo(2)

\* The transforms of a test collection as loaded: its own, uncalibrated
\* instance, which varies with the collection.
TestTransforms(k) == [n \in TransformNames |-> Tf(KeyInt(k), "id")]

\* image.shape of the images of the test dataset: rows, columns.
ImageShape == <<2, 3>>

\* The limit points a point cloud file may hold, in the range sensor frame:
\* none; one that projects into the image; one that projects outside; one
\* behind the camera whose pixel is inside; one in a corner of the image
\* before one inside; one outside before one in the opposite corner; one at
\* depth 2 before one below the image; one inside before one behind the
\* camera.
CloudPool ==
  { <<>>,
    << <<1, 1, 1>> >>,
    << <<4, 1, 1>> >>,
    << <<-1, -1, -1>> >>,
    << <<0, 0, 1>>, <<1, 1, 1>> >>,
    << <<4, 1, 1>>, <<3, 2, 1>> >>,
    << <<2, 2, 2>>, <<0, 3, 1>> >>,
    << <<1, 1, 1>>, <<-1, -1, -1>> >> }

\* The annotations a collection may have: sides in dictionary order, each
\* with the parallel lists ixs and iys.
Side(xs, ys) == [ixs |-> xs, iys |-> ys]
AnnotationPool ==
  { <<>>,
    << Side(<<>>, <<>>) >>,
    << Side(<<0>>, <<1>>), Side(<<1>>, <<0>>) >>,
    << Side(<<1, 0>>, <<0, 1>>) >>,
    << Side(<<3, 1>>, <<4, 1>>), Side(<<1, 5>>, <<1>>) >> }

\* -------------------------------------------------- pure functions
\* The rotation of a transform applied to a point.
Rotate(q, p) == IF q = "flipx" THEN <<p[1], -p[2], -p[3]>> ELSE p

ApplyTransform(tf, p) == LET r == Rotate(tf.quat, p) IN <<r[1] + tf.trans, r[2], r[3]>>

\* Both rotations are their own inverse and leave the x axis fixed.
InverseTransform(tf) == Tf(-tf.trans, tf.quat)

ComposeTransforms(a, b) ==
  Tf(a.trans + b.trans, IF a.quat = b.quat THEN "id" ELSE "flipx")

\* getTransform(from_frame, to_frame, transforms): takes a point of to_frame
\* into from_frame, through the common parent of the two frames.
getTransform(from_frame, to_frame, transforms) ==
  ComposeTransforms(InverseTransform(transforms[generateKey("base_link", from_frame)]),
                    transforms[generateKey("base_link", to_frame)])

\* The division X / Z of the pinhole projection is exact on this point.  A
\* point with z = 0, where np.divide gives inf or nan, is left out.
ExactProjection(p) == p[3] # 0 /\ p[1] % Abs(p[3]) = 0 /\ p[2] % Abs(p[3]) = 0

\* np.divide(a, b) where it is exact.
Divide(a, b) == IF b < 0 THEN (-a) \div (-b) ELSE a \div b

\* projectToCamera(K, D, w, h, pts) with D = 0: the pixel of every point,
\* also of one that is behind the camera or outside the image; the mask of
\* the valid pixels (z > 0, inside the image); the distances.
ProjectPoint(K, p) ==
  <<K[1] * Divide(p[1], p[3]) + K[3], K[5] * Divide(p[2], p[3]) + K[6]>>

projectToCamera(K, D, w, h, pts) ==
  [pixs  |-> [i \in 1..Len(pts) |-> ProjectPoint(K, pts[i])],
   valid |-> [i \in 1..Len(pts) |->
                LET px == ProjectPoint(K, pts[i])
                IN  pts[i][3] > 0 /\ px[1] >= 0 /\ px[1] < w /\ px[2] >= 0 /\ px[2] < h]]

\* points_in_cam of rangeToImage: np.dot(tf, points_in_vel).
PointsInCam(tf, pc) == [i \in 1..Len(pc) |-> ApplyTransform(tf, pc[i])]

\* rangeToImage: the pixels alone are returned, the mask is dropped.
rangeToImage(pc, camera_info, tf) ==
  projectToCamera(camera_info.K, camera_info.D, ImageShape[2], ImageShape[1],
                  PointsInCam(tf, pc)).pixs

\* zip(ixs, iys)
Zip(xs, ys) ==
  LET n == IF Len(xs) < Len(ys) THEN Len(xs) ELSE Len(ys)
  IN  [i \in 1..n |-> <<xs[i], ys[i]>>]

\* The reference points in the order the two nested loops visit them.
RECURSIVE ReferencePoints(_)
ReferencePoints(sides) ==
  IF sides = <<>> THEN <<>>
  ELSE Zip(Head(sides).ixs, Head(sides).iys) \o ReferencePoints(Tail(sides))

\* OutsideImage with the border of the image left out as well.
OutsideImageStrict(x_proj, y_proj) ==
  x_proj >= ImageShape[2] \/ x_proj <= 0 \/ y_proj >= ImageShape[1] \/ y_proj <= 0

\* Do not consider points that are re-projected outside of the image.
OutsideImage(x_proj, y_proj) ==
  x_proj > ImageShape[2] \/ x_proj < 0 \/ y_proj > ImageShape[1] \/ y_proj < 0

PointError(x_proj, y_proj, r) ==
  Sqrt((x_proj - r[1]) * (x_proj - r[1]) + (y_proj - r[2]) * (y_proj - r[2]))

\* CloserThan that lets a later point at the same distance win.
CloserOrEqual(error, min_error) == error <= min_error

\* error < min_error
CloserThan(error, min_error) == error < min_error

\* The search of the closest reference point: min_error starts at
\* sys.float_info.max and x_min, y_min at None (found = FALSE).
RECURSIVE ClosestFrom(_, _, _, _)
ClosestFrom(x_proj, y_proj, refs, best) ==
  IF refs = <<>> THEN best
  ELSE LET error == PointError(x_proj, y_proj, Head(refs))
           better == ~best.found \/ CloserThan(error, best.min_error)
       IN  ClosestFrom(x_proj, y_proj, Tail(refs),
                       IF better
                       THEN [found |-> TRUE, min_error |-> error,
                             x_min |-> Head(refs)[1], y_min |-> Head(refs)[2]]
                       ELSE best)

Closest(x_proj, y_proj, sides) ==
  ClosestFrom(x_proj, y_proj, ReferencePoints(sides),
              [found |-> FALSE, min_error |-> 0, x_min |-> 0, y_min |-> 0])

\* KeyBefore on the keys as strings: digit by digit, a prefix first.
RECURSIVE KeyBeforeAsText(_, _)
KeyBeforeAsText(a, b) ==
  IF b = <<>> THEN FALSE
  ELSE IF a = <<>> THEN TRUE
  ELSE IF Head(a) # Head(b) THEN Head(a) < Head(b)
  ELSE KeyBeforeAsText(Tail(a), Tail(b))

\* Is key a before key b: the sort key int(t[0]).
KeyBefore(a, b) == KeyInt(a) < KeyInt(b)

\* sorted(collections.items(), key=lambda t: int(t[0])): the keys in order.
RECURSIVE SortedKeys(_)
SortedKeys(S) ==
  IF S = {} THEN <<>>
  ELSE LET k == CHOOSE a \in S : \A b \in S \ {a} : KeyBefore(a, b)
       IN  <<k>> \o SortedKeys(S \ {k})

\* ------------------------------------------------------------ state
VARIABLES
  pc,                \* where the script is
  exc,               \* the exception that ended the run, or "none"
  train_collections, \* train_dataset['collections'], in file order
  test_collections,  \* test_dataset['collections']: key -> labels, transforms
  test_camera_info,  \* test_dataset['sensors'][s]['camera_info'] of the Image sensors
  sensor_todo,       \* the sensors the loop of the grafting has not visited yet
  od,                \* the sorted keys of the loop that is running
  pos,               \* the position of that loop in od
  e,                 \* dictionary with all the errors
  collection_key,    \* the collection of the evaluation loop
  annotation,        \* annotations[collection_key]
  points_in_cam,     \* the limit points of the collection in the camera frame
  pts_in_image,      \* their pixels
  idx,               \* the position of the loop over the points
  x_errors, y_errors, rms_errors,
  table,             \* the rows of the table
  printed,           \* the table was printed
  notices,           \* the diagnostics printed so far
  resolved,          \* history: key -> the transforms handed to getTransform
  records,           \* history: per error, the point and the reference it was matched to
  visited,           \* history: the collections in the order the evaluation loop took them
  pool               \* history: the matched pairs of all collections so far

vars == <<pc, exc, train_collections, test_collections, test_camera_info, sensor_todo,
          od, pos, e, collection_key, annotation, points_in_cam, pts_in_image, idx,
          x_errors, y_errors, rms_errors, table, printed, notices,
          resolved, records, visited, pool>>

dataset_vars == <<train_collections, test_collections, test_camera_info, sensor_todo>>
point_vars == <<collection_key, annotation, points_in_cam, pts_in_image, idx,
                x_errors, y_errors, rms_errors, records>>
history_vars == <<resolved, visited, pool>>

NoKey == <<>>
EmptyDict == <<>>
EmptyPool == [n |-> 0, x |-> 0, y |-> 0, d2 |-> 0]

\* No turn of the evaluation loop is running.
NoCollection ==
  /\ collection_key = NoKey
  /\ annotation = <<>>
  /\ points_in_cam = <<>>
  /\ pts_in_image = <<>>
  /\ idx = 1
  /\ x_errors = <<>>
  /\ y_errors = <<>>
  /\ rms_errors = <<>>
  /\ records = <<>>

ImageSensors == {s \in SensorKeys : sensors[s].msg_type = "Image"}

\* The state after both datasets and the annotations are loaded.
InitWith(keys, labels, train) ==
  /\ pc = "graft"
  /\ exc = "none"
  /\ train_collections = train
  /\ test_collections = [k \in keys |-> [labels |-> labels[k], transforms |-> TestTransforms(k)]]
  /\ test_camera_info = [s \in ImageSensors |-> TestCameraInfo]
  /\ sensor_todo = SensorOrder
  /\ od = <<>>
  /\ pos = 1
  /\ e = <<>>
  /\ NoCollection
  /\ table = <<>>
  /\ printed = FALSE
  /\ notices = {}
  /\ resolved = <<>>
  /\ visited = <<>>
  /\ pool = EmptyPool

Init ==
  \E keys \in {S \in SUBSET KeyPool : Cardinality(S) <= MaxCollections} :
    \E labels \in [keys -> [SensorKeys -> BOOLEAN]] :
      \E train \in TrainPool :
        InitWith(keys, labels, train)

\* ---------------------------------------------------------- actions
\* SelectedCollection taking the last collection of the file.
SelectedCollectionLast(train) == train[Len(train)]

\* selected_collection_key: the first collection of the training dataset.
SelectedCollection(train) == train[1]

\* The transform of a test collection after the optimized one is copied in.
Grafted(own, optimized_transform) ==
  [own EXCEPT !.quat = optimized_transform.quat, !.trans = optimized_transform.trans]

\* One turn of the loop over the sensors of the training dataset: the
\* optimized transform of the sensor replaces that of every test collection.
GraftSensor ==
  /\ pc = "graft"
  /\ sensor_todo # <<>>
  /\ LET transform_name == TransformNameOf(Head(sensor_todo))
         optimized_transform ==
           SelectedCollection(train_collections).transforms[transform_name]
     IN  test_collections' =
           [k \in DOMAIN test_collections |->
              [test_collections[k] EXCEPT
                 !.transforms[transform_name] = Grafted(@, optimized_transform)]]
  /\ sensor_todo' = Tail(sensor_todo)
  /\ UNCHANGED <<pc, exc, train_collections, test_camera_info, od, pos, e, table,
                 printed, notices>>
  /\ UNCHANGED point_vars
  /\ UNCHANGED history_vars

\* Copy intrinsic parameters for cameras from train to test dataset.
CopyIntrinsics ==
  /\ pc = "graft"
  /\ sensor_todo = <<>>
  /\ test_camera_info' = [s \in ImageSensors |-> TrainCameraInfo]
  /\ pc' = "filter"
  /\ UNCHANGED <<exc, train_collections, test_collections, sensor_todo, od, pos, e,
                 table, printed, notices>>
  /\ UNCHANGED point_vars
  /\ UNCHANGED history_vars

\* The sensor the inner loop of the deletion breaks on, or "" when the loop
\* runs to its end.
RECURSIVE MissingSensor(_, _)
MissingSensor(labels, order) ==
  IF order = <<>> THEN ""
  ELSE IF ~labels[Head(order)] /\ (Head(order) = camera_sensor \/ Head(order) = range_sensor)
       THEN Head(order)
       ELSE MissingSensor(labels, Tail(order))

\* collections_to_delete asking for a detection by every sensor.
collections_to_delete_all(collections) ==
  {k \in DOMAIN collections : \E s \in SensorKeys : ~collections[k].labels[s]}

collections_to_delete(collections) ==
  {k \in DOMAIN collections : MissingSensor(collections[k].labels, SensorOrder) # ""}

\* Deleting collections where the pattern is not found, then the set-up of
\* the evaluation loop.
DeleteCollections ==
  /\ pc = "filter"
  /\ LET del == collections_to_delete(test_collections)
         kept == DOMAIN test_collections \ del
     IN  /\ test_collections' = [k \in kept |-> test_collections[k]]
         /\ notices' = notices \cup
              {<<"removed", k, MissingSensor(test_collections[k].labels, SensorOrder)>> :
                 k \in del}
         /\ od' = SortedKeys(kept)
  /\ pos' = 1
  /\ e' = <<>>
  /\ pc' = "collections"
  /\ UNCHANGED <<exc, train_collections, test_camera_info, sensor_todo, table, printed>>
  /\ UNCHANGED point_vars
  /\ UNCHANGED history_vars

\* The head of one turn of the evaluation loop: the errors of the collection
\* are initialised, the transform is resolved, the point cloud file is read
\* and projected, the annotations of the collection are looked up.
NextCollection ==
  /\ pc = "collections"
  /\ pos <= Len(od)
  /\ LET key == od[pos]
         vel2cam == getTransform(SensorLink[camera_sensor], SensorLink[range_sensor],
                                 test_collections[key].transforms)
     IN  /\ collection_key' = key
         /\ e' = [k \in DOMAIN e \cup {key} |-> IF k = key THEN EmptyDict ELSE e[k]]
         /\ resolved' = [k \in DOMAIN resolved \cup {key} |->
                           IF k = key THEN test_collections[key].transforms ELSE resolved[k]]
         /\ visited' = Append(visited, key)
         /\ \E cloud \in CloudPool :
              /\ \A i \in 1..Len(cloud) : ExactProjection(ApplyTransform(vel2cam, cloud[i]))
              /\ points_in_cam' = PointsInCam(vel2cam, cloud)
              /\ pts_in_image' = rangeToImage(cloud, test_camera_info[camera_sensor], vel2cam)
         /\ \E a \in AnnotationPool : annotation' = a
  /\ idx' = 1
  /\ x_errors' = <<>>
  /\ y_errors' = <<>>
  /\ rms_errors' = <<>>
  /\ records' = <<>>
  /\ pc' = "points"
  /\ UNCHANGED <<exc, od, pos, table, printed, notices, pool>>
  /\ UNCHANGED dataset_vars

\* One turn of the loop over the projected points.
ProcessPoint ==
  /\ pc = "points"
  /\ idx <= Len(pts_in_image)
  /\ LET x_proj == pts_in_image[idx][1]
         y_proj == pts_in_image[idx][2]
         m == Closest(x_proj, y_proj, annotation)
     IN  IF OutsideImage(x_proj, y_proj)
         THEN /\ idx' = idx + 1
              /\ UNCHANGED <<pc, exc, x_errors, y_errors, rms_errors, records, pool>>
         ELSE IF ~m.found
         THEN \* abs(x_proj - None)
              /\ pc' = "crashed"
              /\ exc' = "TypeError"
              /\ UNCHANGED <<idx, x_errors, y_errors, rms_errors, records, pool>>
         ELSE /\ x_errors' = Append(x_errors, Abs(x_proj - m.x_min) * Scale)
              /\ y_errors' = Append(y_errors, Abs(y_proj - m.y_min) * Scale)
              /\ rms_errors' = Append(rms_errors, m.min_error)
              /\ records' = Append(records, [idx |-> idx, x_min |-> m.x_min, y_min |-> m.y_min])
              /\ pool' = [n  |-> pool.n + 1,
                          x  |-> pool.x + Abs(x_proj - m.x_min),
                          y  |-> pool.y + Abs(y_proj - m.y_min),
                          d2 |-> pool.d2 + (x_proj - m.x_min) * (x_proj - m.x_min)
                                         + (y_proj - m.y_min) * (y_proj - m.y_min)]
              /\ idx' = idx + 1
              /\ UNCHANGED <<pc, exc>>
  /\ UNCHANGED <<od, pos, e, collection_key, annotation, points_in_cam, pts_in_image,
                 table, printed, notices, resolved, visited>>
  /\ UNCHANGED dataset_vars

\* The end of one turn of the evaluation loop.  The variables of the turn
\* are dead from here on (each is assigned again before it is read) and are
\* dropped.
EndCollection ==
  /\ pc = "points"
  /\ idx > Len(pts_in_image)
  /\ IF rms_errors = <<>>
     THEN /\ notices' = notices \cup {<<"no point", collection_key, "">>}
          /\ UNCHANGED e
     ELSE /\ e' = [e EXCEPT ![collection_key] =
                     [x |-> Average(x_errors), y |-> Average(y_errors),
                      rms |-> Average(rms_errors)]]
          /\ UNCHANGED notices
  /\ pos' = pos + 1
  /\ pc' = "collections"
  /\ collection_key' = NoKey
  /\ annotation' = <<>>
  /\ points_in_cam' = <<>>
  /\ pts_in_image' = <<>>
  /\ idx' = 1
  /\ x_errors' = <<>>
  /\ y_errors' = <<>>
  /\ rms_errors' = <<>>
  /\ records' = <<>>
  /\ UNCHANGED <<exc, od, table, printed>>
  /\ UNCHANGED history_vars
  /\ UNCHANGED dataset_vars

\* The evaluation loop is over: the empty table and the keys sorted again.
StartTable ==
  /\ pc = "collections"
  /\ pos > Len(od)
  /\ table' = <<>>
  /\ od' = SortedKeys(DOMAIN test_collections)
  /\ pos' = 1
  /\ pc' = "rows"
  /\ UNCHANGED <<exc, e, printed, notices>>
  /\ UNCHANGED point_vars
  /\ UNCHANGED history_vars
  /\ UNCHANGED dataset_vars

\* The row of a collection: '%.4f' of its rms, x and y.
CollectionRow(key, errors) ==
  [kind |-> "collection", key |-> key,
   cells |-> <<Format(errors.rms), Format(errors.x), Format(errors.y)>>,
   red |-> {}]

\* One turn of the loop that fills the table.
AddRow ==
  /\ pc = "rows"
  /\ pos <= Len(od)
  /\ IF "rms" \in DOMAIN e[od[pos]]
     THEN /\ table' = Append(table, CollectionRow(od[pos], e[od[pos]]))
          /\ pos' = pos + 1
          /\ UNCHANGED <<pc, exc>>
     ELSE \* e[collection_key]['rms']
          /\ pc' = "crashed"
          /\ exc' = "KeyError"
          /\ UNCHANGED <<table, pos>>
  /\ UNCHANGED <<od, e, printed, notices>>
  /\ UNCHANGED point_vars
  /\ UNCHANGED history_vars
  /\ UNCHANGED dataset_vars

\* total of a column: the sum of float(row[col_idx]) over the rows.
RECURSIVE ColumnTotal(_, _)
ColumnTotal(rows, col) ==
  IF rows = <<>> THEN 0
  ELSE ParseFloat(Head(rows).cells[col]) + ColumnTotal(Tail(rows), col)

\* BottomCell computed over the pool of the matched pairs of all collections.
BottomCellPooled(rows, col) ==
  IF col = 1 THEN Format(SqrtRat(pool.d2, pool.n))
  ELSE IF col = 2 THEN Format((pool.x * Scale) \div pool.n)
  ELSE Format((pool.y * Scale) \div pool.n)

\* The cell of the bottom row in a column: '%.4f' % (total / count).
BottomCell(rows, col) == Format(ColumnTotal(rows, col) \div Len(rows))

\* Compute averages and add a bottom row.
BottomRow ==
  /\ pc = "rows"
  /\ pos > Len(od)
  /\ IF Len(table) = 0
     THEN \* total / count with count = 0
          /\ pc' = "crashed"
          /\ exc' = "ZeroDivisionError"
          /\ UNCHANGED table
     ELSE /\ table' = Append(table,
                        [kind |-> "averages", key |-> NoKey,
                         cells |-> [col \in 1..3 |-> BottomCell(table, col)],
                         red |-> {}])
          /\ pc' = "highlight"
          /\ UNCHANGED exc
  /\ UNCHANGED <<od, pos, e, printed, notices>>
  /\ UNCHANGED point_vars
  /\ UNCHANGED history_vars
  /\ UNCHANGED dataset_vars

\* max_row_idx of a column: the first row with the largest value above 0,
\* row 0 when there is none.
RECURSIVE MaxRowIdx(_, _, _, _, _)
MaxRowIdx(rows, col, row_idx, max, max_row_idx) ==
  IF row_idx > Len(rows) THEN max_row_idx
  ELSE LET value == ParseFloat(rows[row_idx].cells[col])
       IN  IF value > max
           THEN MaxRowIdx(rows, col, row_idx + 1, value, row_idx)
           ELSE MaxRowIdx(rows, col, row_idx + 1, max, max_row_idx)

\* Put larger errors in red per column, then print the table.
PrintTable ==
  /\ pc = "highlight"
  /\ LET body == SubSeq(table, 1, Len(table) - 1)
     IN  table' = [r \in 1..Len(table) |->
                     [table[r] EXCEPT !.red =
                        {col \in 1..3 : MaxRowIdx(body, col, 1, 0, 1) = r}]]
  /\ printed' = TRUE
  /\ pc' = "done"
  /\ UNCHANGED <<exc, od, pos, e, notices>>
  /\ UNCHANGED point_vars
  /\ UNCHANGED history_vars
  /\ UNCHANGED dataset_vars

Next ==
  \/ GraftSensor
  \/ CopyIntrinsics
  \/ DeleteCollections
  \/ NextCollection
  \/ ProcessPoint
  \/ EndCollection
  \/ StartTable
  \/ AddRow
  \/ BottomRow
  \/ PrintTable

Spec == Init /\ [][Next]_vars

\* ------------------------------------------------------------ claims
HasErrors(k) == k \in DOMAIN e /\ "rms" \in DOMAIN e[k]
Skipped(k) == <<"no point", k, "">> \in notices
RowKeys(rows) == {rows[r].key : r \in {i \in 1..Len(rows) : rows[i].kind = "collection"}}
TheReferences == ReferencePoints(annotation)
InRange(s, x) == \E i \in 1..Len(s) : s[i] = x

\* C1: when a surviving collection has no point inside the image while
\* another collection has matched points, the collection is skipped with a
\* notice, has no row, and the run is not ended by it: the table loop does
\* not fail on the collection and the report is still printed.
C1_SkippedCollectionKeepsReport ==
  \A k \in DOMAIN e :
    (Skipped(k) /\ \E k2 \in DOMAIN e : HasErrors(k2))
      => /\ k \notin RowKeys(table)
         /\ ~(pc = "crashed" /\ exc = "KeyError")

\* The global statistics over the pool of the matched pairs.
PooledRms == Format(SqrtRat(pool.d2, pool.n))
PooledX == Format((pool.x * Scale) \div pool.n)
PooledY == Format((pool.y * Scale) \div pool.n)

BothDetected(c) == c.labels[range_sensor] /\ c.labels[camera_sensor]

C4_NoRecordBehindCamera ==
  \A j \in 1..Len(records) : points_in_cam[records[j].idx][3] > 0

\* C5: with an empty reference set a point inside the image gives no error
\* record and the run does not fail on it.
C5_EmptyReferenceNoCrash ==
  TheReferences = <<>> => (records = <<>> /\ exc # "TypeError")

\* C6: when no collection has a matched point the run ends neither in a
\* division by zero nor in a failed lookup.
C6_NoMatchedPointSignalled ==
  pool.n = 0 => exc \notin {"ZeroDivisionError", "KeyError"}

\* C7: every error record holds the smallest distance from its point to a
\* reference point and the first reference point, in the order of the
\* sides and of their lists, at that distance; the distance is 0 when the
\* point is itself a reference point.
C7_ClosestReference ==
  \A j \in 1..Len(records) :
    LET p == pts_in_image[records[j].idx]
        d(i) == PointError(p[1], p[2], TheReferences[i])
    IN  /\ \A i \in 1..Len(TheReferences) : rms_errors[j] <= d(i)
        /\ \E i \in 1..Len(TheReferences) :
             /\ TheReferences[i] = <<records[j].x_min, records[j].y_min>>
             /\ d(i) = rms_errors[j]
             /\ \A i2 \in 1..(i - 1) : d(i2) > rms_errors[j]
             /\ x_errors[j] = Abs(p[1] - TheReferences[i][1]) * Scale
             /\ y_errors[j] = Abs(p[2] - TheReferences[i][2]) * Scale
        /\ InRange(TheReferences, p) => rms_errors[j] = 0

\* A point with two reference points at the same smallest distance was
\* matched to the first of them.
C7_Witness ==
  \E j \in 1..Len(records) :
    LET p == pts_in_image[records[j].idx]
    IN  \E i1, i2 \in 1..Len(TheReferences) :
          /\ i1 < i2
          /\ TheReferences[i1] # TheReferences[i2]
          /\ PointError(p[1], p[2], TheReferences[i1]) = rms_errors[j]
          /\ PointError(p[1], p[2], TheReferences[i2]) = rms_errors[j]

SameTransform(a, b) == a.trans = b.trans /\ a.quat = b.quat

\* C8: once the calibrated values are grafted, the transform of every
\* sensor is, in every test collection and in every set of transforms
\* handed to the resolution, that of the first collection of the training
\* dataset.
C8_SharedCalibratedTransform ==
  pc # "graft" =>
    \A s \in SensorKeys :
      LET n == TransformNameOf(s)
          first == train_collections[1].transforms[n]
      IN  /\ \A k \in DOMAIN test_collections :
               SameTransform(test_collections[k].transforms[n], first)
          /\ \A k \in DOMAIN resolved : SameTransform(resolved[k][n], first)

\* Two collections were resolved; their own transforms differed from each
\* other and the training dataset has a later collection with another value.
C8_Witness ==
  /\ Cardinality(DOMAIN resolved) = 2
  /\ Len(train_collections) = 2
  /\ \E n \in TransformNames :
       /\ train_collections[1].transforms[n] # train_collections[2].transforms[n]
       /\ \A k \in DOMAIN resolved : TestTransforms(k)[n] # train_collections[1].transforms[n]

InsideImage(p) ==
  0 <= p[1] /\ p[1] <= ImageShape[2] /\ 0 <= p[2] /\ p[2] <= ImageShape[1]

\* C9: the error records of a collection are those of the visited points
\* whose pixel is inside the image, border included, in their order, and
\* the record of a point is what the point alone gives.
C9_BoundsFilter ==
  LET inside == {i \in 1..(idx - 1) : InsideImage(pts_in_image[i])}
  IN  /\ {records[j].idx : j \in 1..Len(records)} = inside
      /\ Len(records) = Cardinality(inside)
      /\ \A j \in 1..Len(records) :
           LET p == pts_in_image[records[j].idx]
               m == Closest(p[1], p[2], annotation)
           IN  /\ x_errors[j] = Abs(p[1] - m.x_min) * Scale
               /\ y_errors[j] = Abs(p[2] - m.y_min) * Scale
               /\ rms_errors[j] = m.min_error
      /\ \A j \in 1..(Len(records) - 1) : records[j].idx < records[j + 1].idx
      /\ Len(x_errors) = Len(records)
      /\ Len(y_errors) = Len(records)
      /\ Len(rms_errors) = Len(records)

\* A point outside the image was left out and the next one, on the border
\* of the image, has its record.
C9_Witness ==
  /\ idx = 3
  /\ ~InsideImage(pts_in_image[1])
  /\ pts_in_image[2] = <<ImageShape[2], ImageShape[1]>>
  /\ Len(records) = 1
  /\ records[1].idx = 2

Ascending(keys) == \A i \in 1..(Len(keys) - 1) : KeyInt(keys[i]) < KeyInt(keys[i + 1])

\* C10: the collections are taken one at a time in ascending order of
\* int(key), each once; the rows of the table follow the same order, and
\* the bottom row is the last row.
C10_AscendingOrder ==
  /\ Ascending(visited)
  /\ {visited[i] : i \in 1..Len(visited)} \subseteq DOMAIN test_collections
  /\ pc \in {"collections", "points"} => visited = SubSeq(od, 1, Len(visited))
  /\ pc \in {"rows", "highlight", "done"} =>
       {visited[i] : i \in 1..Len(visited)} = DOMAIN test_collections
  /\ LET n == IF pc \in {"highlight", "done"} THEN Len(table) - 1 ELSE Len(table)
     IN  /\ n <= Len(visited)
         /\ \A r \in 1..n : table[r].kind = "collection" /\ table[r].key = visited[r]
         /\ pc \in {"highlight", "done"} =>
              /\ n = Len(visited)
              /\ table[Len(table)].kind = "averages"

\* The table was printed with the row of collection 9 before that of
\* collection 10.
C10_Witness ==
  /\ printed
  /\ Len(table) = 3
  /\ table[1].key = <<9>>
  /\ table[2].key = <<1, 0>>

====
